---------------------------- MODULE Spec2Model ----------------------------
(***************************************************************************)
(* Promotional email generator (src/app.py): the URL normalizer, the web   *)
(* text extractor, the prompt composer / completion client and the         *)
(* generate handler of the Streamlit script.                               *)
(*                                                                         *)
(* Two string representations are used.                                    *)
(*   - A URL is a sequence of one-character strings (<<"h","t",...>>).     *)
(*   - A text (page text, promotion details, descriptions, model output)   *)
(*     is a run-length encoded string: a sequence of runs [c, n] meaning   *)
(*     n copies of character c, adjacent runs having different characters. *)
(*     This keeps the program's real thresholds (300 and 7000 characters)  *)
(*     while the states stay small.                                        *)
(***************************************************************************)
EXTENDS Integers, Sequences, FiniteSets, TLC

VARIABLES
    pc,                 \* position of the script run
    api_key,            \* sidebar text_input                (app.py:129)
    website_url_raw,    \* text_input "Business Website URL" (app.py:134)
    promo_details,      \* text_area "Promotion Details"     (app.py:135)
    manual_description, \* text_area fallback description    (app.py:142)
    strict_urlparse,    \* which urllib build runs: does urlsplit validate bracketed hosts
    website_url,        \* result of normalize_url           (app.py:157)
    page,               \* parsed HTML document of the response (app.py:57)
    scraped,            \* value returned by scrape_website_text (app.py:171)
    scrape_failed,      \* app.py:167
    business_text,      \* app.py:166
    user_prompt,        \* prompt built inside call_openai   (app.py:106)
    email_text,         \* app.py:191
    ui,                 \* elements rendered by this run, in order
    events              \* external calls of this run, in order

vars == <<pc, api_key, website_url_raw, promo_details, manual_description,
          strict_urlparse, website_url, page, scraped, scrape_failed,
          business_text, user_prompt, email_text, ui, events>>

-----------------------------------------------------------------------------
(* Bounds of the model *)

\* Longest tail appended to a URL prefix when raw URLs are enumerated.
MaxRest == 3

-----------------------------------------------------------------------------
(* URL strings: sequences of characters *)

SP == " "

\* str.lower() on the characters used in URLs.
Lower(c) ==
    CASE c = "H" -> "h"
      [] c = "T" -> "t"
      [] c = "P" -> "p"
      [] c = "S" -> "s"
      [] OTHER -> c

LowerSeq(u) == [i \in 1..Len(u) |-> Lower(u[i])]

IsPrefix(p, u) == Len(p) <= Len(u) /\ SubSeq(u, 1, Len(p)) = p

\* Set of the characters of u.
Chars(u) == {u[i] : i \in 1..Len(u)}

\* Smallest index i >= from with u[i] \in cs, or Len(u) + 1 when there is none.
FindFrom(u, cs, from) ==
    LET hits == {i \in from..Len(u) : u[i] \in cs}
    IN  IF hits = {} THEN Len(u) + 1
        ELSE CHOOSE i \in hits : \A j \in hits : i <= j

\* str.strip() on a URL string: the only whitespace in the alphabet is SP.
UStrip(u) ==
    LET keep == {i \in 1..Len(u) : u[i] # SP}
    IN  IF keep = {} THEN <<>>
        ELSE LET lo == CHOOSE i \in keep : \A j \in keep : i <= j
                 hi == CHOOSE i \in keep : \A j \in keep : i >= j
             IN  SubSeq(u, lo, hi)

HTTP_SCHEME  == <<"h", "t", "t", "p", ":", "/", "/">>
HTTPS_SCHEME == <<"h", "t", "t", "p", "s", ":", "/", "/">>

\* re.match(r"^https?://", url, flags=re.IGNORECASE)
MatchesScheme(u) ==
    \/ IsPrefix(HTTP_SCHEME, LowerSeq(u))
    \/ IsPrefix(HTTPS_SCHEME, LowerSeq(u))


\* string.ascii_letters + digits + "+-." restricted to the URL alphabet.
scheme_chars == {"h", "t", "p", "s", "x", "H", "T", "P", "S", "."}

IsAlpha(c) == c \in {"h", "t", "p", "s", "x", "H", "T", "P", "S"}

\* ipaddress.ip_address(h) accepts h as an IPv6 address.  No character of the
\* URL alphabet is a hexadecimal digit, so "::" is the only such address.
IsIPv6(h) == h = <<":", ":">>

\* urlsplit: the part of url left after the scheme has been split off.
AfterScheme(url) ==
    LET i == FindFrom(url, {":"}, 1)
    IN  IF /\ i <= Len(url)
           /\ i > 1
           /\ IsAlpha(url[1])
           /\ \A k \in 1..(i - 1) : url[k] \in scheme_chars
        THEN SubSeq(url, i + 1, Len(url))
        ELSE url

\* _splitnetloc(url, 2): the text between "//" and the first of "/?#".
SplitNetloc(rest) == SubSeq(rest, 3, FindFrom(rest, {"/", "?", "#"}, 3) - 1)

\* netloc.partition('[')[2].partition(']')[0]
BracketedHost(netloc) ==
    LET open  == FindFrom(netloc, {"["}, 1)
        tail  == SubSeq(netloc, open + 1, Len(netloc))
        close == FindFrom(tail, {"]"}, 1)
    IN  SubSeq(tail, 1, close - 1)

\* urlparse(url): [raised, netloc].  Only the netloc is read by the caller.
\* Every urllib build raises ValueError on a netloc with one bracket and not
\* the other.  strict is TRUE for the builds that also validate the host
\* between matched brackets (_check_bracketed_host), FALSE for the older ones.
urlparse(url, strict) ==
    LET rest == AfterScheme(url)
    IN  IF Len(rest) >= 2 /\ rest[1] = "/" /\ rest[2] = "/"
        THEN LET netloc == SplitNetloc(rest)
                 cs     == Chars(netloc)
             IN  IF ("[" \in cs /\ "]" \notin cs) \/ ("]" \in cs /\ "[" \notin cs)
                 THEN [raised |-> TRUE, netloc |-> <<>>]
                 ELSE IF /\ strict
                         /\ "[" \in cs
                         /\ "]" \in cs
                         /\ ~IsIPv6(BracketedHost(netloc))
                 THEN [raised |-> TRUE, netloc |-> <<>>]
                 ELSE [raised |-> FALSE, netloc |-> netloc]
        ELSE [raised |-> FALSE, netloc |-> <<>>]

\* What a call of normalize_url produces: a returned string, or an exception.
Returns(u) == [raised |-> FALSE, url |-> u]
Raises == [raised |-> TRUE, url |-> <<>>]

\* The mutant skips the host check.
normalize_url_no_host_check(url, strict) ==
    LET u1 == UStrip(url)
        u2 == IF MatchesScheme(u1) THEN u1 ELSE HTTPS_SCHEME \o u1
        parsed == urlparse(u2, strict)
    IN  IF u1 = <<>> THEN Returns(<<>>)
        ELSE IF parsed.raised THEN Raises
        ELSE Returns(u2)

\* normalize_url(url): the returned string (the empty string is the invalid
\* result), or the exception of urlparse, which nothing in the function catches.
normalize_url(url, strict) ==
    LET u1 == UStrip(url)
        u2 == IF MatchesScheme(u1) THEN u1 ELSE HTTPS_SCHEME \o u1
        parsed == urlparse(u2, strict)
    IN  IF u1 = <<>> THEN Returns(<<>>)
        ELSE IF parsed.raised THEN Raises
        ELSE IF parsed.netloc = <<>> THEN Returns(<<>>)
        ELSE Returns(u2)

-----------------------------------------------------------------------------
(* Raw URLs typed by the user, for the checks of normalize_url *)

RECURSIVE SeqsUpTo(_, _)
\* All sequences over S of length at most n.
SeqsUpTo(S, n) ==
    IF n = 0 THEN {<<>>}
    ELSE LET shorter == SeqsUpTo(S, n - 1)
         IN  shorter \cup {Append(s, c) : s \in {t \in shorter : Len(t) = n - 1}, c \in S}

RestChars == {"x", ".", "/", "?", "#", "[", "]", ":", "@", SP}

UrlPrefixes ==
    { <<>>,
      HTTP_SCHEME,
      HTTPS_SCHEME,
      <<"H", "T", "T", "P", ":", "/", "/">>,
      <<"h", "T", "t", "P", "s", ":", "/", "/">>,
      <<SP>> \o HTTPS_SCHEME,
      <<"h", "t", "t", "p", "s", ":", "/">>,
      <<"h", "t", "t", "p", ":">>,
      <<"x", ":", "/", "/">> }

RawUrls == {p \o r : p \in UrlPrefixes, r \in SeqsUpTo(RestChars, MaxRest)}

InitUrl ==
    /\ pc = "start"
    /\ website_url_raw \in RawUrls
    /\ strict_urlparse \in BOOLEAN
    /\ api_key = <<>>
    /\ promo_details = <<>>
    /\ manual_description = <<>>
    /\ website_url = <<>>
    /\ page = <<>>
    /\ scraped = <<>>
    /\ scrape_failed = FALSE
    /\ business_text = <<>>
    /\ user_prompt = <<>>
    /\ email_text = <<>>
    /\ ui = <<>>
    /\ events = <<>>

\* website_url = normalize_url(website_url_raw), called on its own.
ApplyNormalize ==
    /\ pc = "start"
    /\ LET r == normalize_url(website_url_raw, strict_urlparse)
       IN  /\ pc' = IF r.raised THEN "raised" ELSE "returned"
           /\ website_url' = r.url
    /\ UNCHANGED <<api_key, website_url_raw, promo_details, manual_description,
                   strict_urlparse, page, scraped, scrape_failed, business_text,
                   user_prompt, email_text, ui, events>>

NextUrl == ApplyNormalize

SpecUrl == InitUrl /\ [][NextUrl]_vars

-----------------------------------------------------------------------------
(* Texts: run-length encoded strings *)

NL == "\n"

Run(c, n) == [c |-> c, n |-> n]

\* str.isspace() on the characters used in texts.
IsSpaceChar(c) == c \in {SP, NL}

RECURSIVE TLen(_)
\* len(t)
TLen(t) == IF t = <<>> THEN 0 ELSE Head(t).n + TLen(Tail(t))

\* a + b
TCat(a, b) ==
    IF a = <<>> THEN b
    ELSE IF b = <<>> THEN a
    ELSE IF a[Len(a)].c = Head(b).c
         THEN SubSeq(a, 1, Len(a) - 1)
                \o <<Run(Head(b).c, a[Len(a)].n + Head(b).n)>>
                \o Tail(b)
         ELSE a \o b

RECURSIVE TLStrip(_)
TLStrip(t) ==
    IF t = <<>> THEN <<>>
    ELSE IF IsSpaceChar(Head(t).c) THEN TLStrip(Tail(t))
    ELSE t

RECURSIVE TRStrip(_)
TRStrip(t) ==
    IF t = <<>> THEN <<>>
    ELSE IF IsSpaceChar(t[Len(t)].c) THEN TRStrip(SubSeq(t, 1, Len(t) - 1))
    ELSE t

\* t.strip()
TStrip(t) == TRStrip(TLStrip(t))

RECURSIVE TTake(_, _)
\* t[:k]
TTake(t, k) ==
    IF k <= 0 \/ t = <<>> THEN <<>>
    ELSE IF Head(t).n <= k
         THEN TCat(<<Head(t)>>, TTake(Tail(t), k - Head(t).n))
         ELSE <<Run(Head(t).c, k)>>

-----------------------------------------------------------------------------
(* Prompt composer and completion client: build_user_prompt, call_openai *)

\* max_chars in call_openai
max_chars == 7000

\* The fixed pieces of the template of build_user_prompt, each one symbol.
BUSINESS_HEADER == <<Run("BUSINESS DETAILS (from website and/or user):\n", 1)>>
PROMO_HEADER    == <<Run("PROMOTION DETAILS:\n", 1)>>
TASK_BLOCK      == <<Run("TASK:\n...Requirements:\n...", 1)>>

\* "\n...(truncated)..."
TRUNCATION_MARKER == <<Run(NL, 1), Run(".", 3), Run("(truncated)", 1), Run(".", 3)>>

build_user_prompt(business, promo) ==
    TCat(BUSINESS_HEADER,
    TCat(business,
    TCat(<<Run(NL, 2)>>,
    TCat(PROMO_HEADER,
    TCat(promo,
    TCat(<<Run(NL, 2)>>, TASK_BLOCK))))))

\* The mutant truncates from max_chars characters on (>= for >).
call_openai_prompt_off_by_one(business, promo) ==
    LET b == TStrip(business)
        p == TStrip(promo)
        b2 == IF TLen(b) >= max_chars
              THEN TCat(TTake(b, max_chars), TRUNCATION_MARKER)
              ELSE b
    IN  build_user_prompt(b2, p)

\* call_openai up to the request: the user prompt it sends.
call_openai_prompt(business, promo) ==
    LET b == TStrip(business)
        p == TStrip(promo)
        b2 == IF TLen(b) > max_chars
              THEN TCat(TTake(b, max_chars), TRUNCATION_MARKER)
              ELSE b
    IN  build_user_prompt(b2, p)

\* call_openai after the response: (resp.output_text or "").strip()
call_openai_result(output_text) == TStrip(output_text)

-----------------------------------------------------------------------------
(* Texts given to call_openai, for the checks of the prompt *)

\* Most runs in an enumerated business text.
MaxRuns == 3

RECURSIVE TextsUpTo(_, _, _)
\* All texts of at most n runs, over the characters cs, with run lengths in ls.
TextsUpTo(cs, ls, n) ==
    IF n = 0 THEN {<<>>}
    ELSE LET shorter == TextsUpTo(cs, ls, n - 1)
             longest == {t \in shorter : Len(t) = n - 1}
             Next1(t) == {Append(t, Run(c, l)) :
                            c \in (IF t = <<>> THEN cs ELSE cs \ {t[Len(t)].c}),
                            l \in ls}
         IN  shorter \cup UNION {Next1(t) : t \in longest}

BusinessTexts ==
    TextsUpTo({"x", SP, NL}, {1, max_chars - 1, max_chars, max_chars + 1}, MaxRuns)

PromoTexts ==
    { <<>>,
      <<Run(SP, 2)>>,
      <<Run("p", 1)>>,
      <<Run(SP, 1), Run("p", 3), Run(NL, 1)>>,
      <<Run("p", max_chars + 1)>>,
      <<Run(NL, 1), Run("p", max_chars), Run(SP, 1), Run("p", max_chars)>> }

InitPrompt ==
    /\ pc = "start"
    /\ business_text \in BusinessTexts
    /\ promo_details \in PromoTexts
    /\ api_key = <<>>
    /\ website_url_raw = <<>>
    /\ manual_description = <<>>
    /\ strict_urlparse = FALSE
    /\ website_url = <<>>
    /\ page = <<>>
    /\ scraped = <<>>
    /\ scrape_failed = FALSE
    /\ user_prompt = <<>>
    /\ email_text = <<>>
    /\ ui = <<>>
    /\ events = <<>>

\* The prompt call_openai builds from its arguments, called on its own.
ApplyCompose ==
    /\ pc = "start"
    /\ user_prompt' = call_openai_prompt(business_text, promo_details)
    /\ pc' = "composed"
    /\ UNCHANGED <<api_key, website_url_raw, promo_details, manual_description,
                   strict_urlparse, website_url, page, scraped, scrape_failed,
                   business_text, email_text, ui, events>>

NextPrompt == ApplyCompose

SpecPrompt == InitPrompt /\ [][NextPrompt]_vars

-----------------------------------------------------------------------------
(* Web text extractor: scrape_website_text after the response has arrived *)

(***************************************************************************)
(* A parsed document is the sequence of its nodes in document order.  A    *)
(* node is [tag, depth, text]: an element has its tag name and no text, a  *)
(* string of the page has the tag TEXT and its characters.  The children   *)
(* of the document itself have depth 0; the subtree of node j is j and the *)
(* nodes that follow it while their depth stays greater than j's.          *)
(***************************************************************************)
TEXT == "#text"

Element(tag, depth) == [tag |-> tag, depth |-> depth, text |-> <<>>]
String(text, depth) == [tag |-> TEXT, depth |-> depth, text |-> text]

\* The tag names given to soup(...) on line 60.
REMOVED_TAGS ==
    {"script", "style", "noscript", "svg", "img", "video", "audio", "canvas", "iframe"}

InSubtree(doc, j, i) ==
    /\ j <= i
    /\ \A k \in (j + 1)..i : doc[k].depth > doc[j].depth

RECURSIVE KeepNodes(_, _, _)
\* The nodes of doc from index i on whose index is in keep, in order.
KeepNodes(doc, keep, i) ==
    IF i > Len(doc) THEN <<>>
    ELSE IF i \in keep THEN <<doc[i]>> \o KeepNodes(doc, keep, i + 1)
    ELSE KeepNodes(doc, keep, i + 1)

\* for tag in soup([...]): tag.decompose()
\* Every element with a listed name is found, and each is destroyed with its
\* whole subtree.
Decompose(doc) ==
    LET found == {j \in 1..Len(doc) : doc[j].tag \in REMOVED_TAGS}
        dead  == {i \in 1..Len(doc) : \E j \in found : InSubtree(doc, j, i)}
    IN  KeepNodes(doc, (1..Len(doc)) \ dead, 1)

\* soup.find(name): index of the first element with that name, 0 for None.
Find(doc, name) ==
    LET hits == {i \in 1..Len(doc) : doc[i].tag = name}
    IN  IF hits = {} THEN 0
        ELSE CHOOSE i \in hits : \A j \in hits : i <= j

\* The mutant prefers <body> to <main>.
ContentRoot_body_first(doc) ==
    IF Find(doc, "body") # 0 THEN Find(doc, "body")
    ELSE IF Find(doc, "main") # 0 THEN Find(doc, "main")
    ELSE 0

\* content_root = main if main else soup.body if soup.body else soup
\* Index of the root element, 0 for the document itself.
ContentRoot(doc) ==
    IF Find(doc, "main") # 0 THEN Find(doc, "main")
    ELSE IF Find(doc, "body") # 0 THEN Find(doc, "body")
    ELSE 0

RECURSIVE Join(_, _)
\* sep.join(parts)
Join(parts, sep) ==
    IF parts = <<>> THEN <<>>
    ELSE IF Len(parts) = 1 THEN parts[1]
    ELSE TCat(parts[1], TCat(sep, Join(Tail(parts), sep)))

\* content_root.get_text(separator="\n"): the strings below root, joined.
GetText(doc, root) ==
    LET inside == {i \in 1..Len(doc) :
                     /\ doc[i].tag = TEXT
                     /\ (root = 0 \/ InSubtree(doc, root, i))}
        nodes == KeepNodes(doc, inside, 1)
    IN  Join([k \in 1..Len(nodes) |-> nodes[k].text], <<Run(NL, 1)>>)

RECURSIVE SplitLinesFrom(_, _, _)
SplitLinesFrom(t, cur, acc) ==
    IF t = <<>> THEN (IF cur = <<>> THEN acc ELSE Append(acc, cur))
    ELSE IF Head(t).c = NL
         THEN SplitLinesFrom(Tail(t), <<>>,
                  Append(acc, cur) \o [k \in 1..(Head(t).n - 1) |-> <<>>])
         ELSE SplitLinesFrom(Tail(t), Append(cur, Head(t)), acc)

\* t.splitlines()
SplitLines(t) == SplitLinesFrom(t, <<>>, <<>>)

\* re.sub(r"\n{3,}", "\n\n", t)
CollapseNewlines(t) ==
    [i \in 1..Len(t) |-> IF t[i].c = NL /\ t[i].n >= 3 THEN Run(NL, 2) ELSE t[i]]

\* Lines 69-75: strip the lines, drop the empty ones, join, collapse, strip.
CleanText(text) ==
    LET lines    == SplitLines(text)
        stripped == [k \in 1..Len(lines) |-> TStrip(lines[k])]
        nonempty == SelectSeq(stripped, LAMBDA ln : ln # <<>>)
        cleaned  == Join(nonempty, <<Run(NL, 1)>>)
    IN  TStrip(CollapseNewlines(cleaned))

\* scrape_website_text from line 57 on, for the document the response parsed to.
scrape_website_text(doc) ==
    LET soup == Decompose(doc)
    IN  CleanText(GetText(soup, ContentRoot(soup)))

-----------------------------------------------------------------------------
(* Documents the HTML parser can produce, for the checks of the extractor *)

\* Most nodes in an enumerated document.
MaxNodes == 4

\* Element names used in the enumerated documents.
DocTags == {"main", "body", "div", "script", "noscript", "img"}

\* The parser gives these no children, and these a single string at most.
VoidTags == {"img"}
RawTextTags == {"script", "style"}

\* The string at position i of a document is written with its own character,
\* so that the output shows which strings it was drawn from.
MarkerChars == <<"a", "b", "c", "d", "e", "f">>

\* The strings a page can hold at position i: a word of l characters, a word
\* repeated on padded lines with blank lines between, and whitespace alone.
PageStrings(i, ls) ==
    {<<Run(MarkerChars[i], l)>> : l \in ls}
      \cup { <<Run(SP, 1), Run(MarkerChars[i], 1), Run(NL, 3), Run(SP, 1),
               Run(MarkerChars[i], 1), Run(NL, 1)>>,
             <<Run(NL, 1), Run(SP, 2)>> }

\* Index of the parent of a node placed after doc at the given depth, 0 for
\* the document.
ParentAt(doc, depth) ==
    IF depth = 0 THEN 0
    ELSE LET above == {j \in 1..Len(doc) : doc[j].depth = depth - 1}
         IN  CHOOSE j \in above : \A k \in above : j >= k

\* May node nd follow the nodes of doc in document order?
CanFollow(doc, nd) ==
    LET n == Len(doc)
    IN  /\ nd.depth <= (IF n = 0 THEN 0 ELSE doc[n].depth + 1)
        /\ LET par == ParentAt(doc, nd.depth)
           IN  par # 0 =>
                 /\ doc[par].tag \notin VoidTags \cup {TEXT}
                 /\ doc[par].tag \in RawTextTags => (nd.tag = TEXT /\ par = n)
        \* the parser merges adjacent strings into one
        /\ ~(n > 0 /\ nd.tag = TEXT /\ doc[n].tag = TEXT /\ doc[n].depth = nd.depth)

\* The nodes that can stand at position i of a document, words of lengths ls.
NodesAt(i, ls) ==
    {Element(t, k) : t \in DocTags, k \in 0..(i - 1)}
      \cup {String(x, k) : x \in PageStrings(i, ls), k \in 0..(i - 1)}

InitScrape ==
    /\ pc = "parsing"
    /\ page = <<>>
    /\ api_key = <<>>
    /\ website_url_raw = <<>>
    /\ promo_details = <<>>
    /\ manual_description = <<>>
    /\ strict_urlparse = FALSE
    /\ website_url = <<>>
    /\ scraped = <<>>
    /\ scrape_failed = FALSE
    /\ business_text = <<>>
    /\ user_prompt = <<>>
    /\ email_text = <<>>
    /\ ui = <<>>
    /\ events = <<>>

\* BeautifulSoup(resp.text, "html.parser") adds the next node of the page.
ParseNode ==
    /\ pc = "parsing"
    /\ Len(page) < MaxNodes
    /\ \E nd \in NodesAt(Len(page) + 1, {1}) :
          /\ CanFollow(page, nd)
          /\ page' = Append(page, nd)
    /\ UNCHANGED <<pc, api_key, website_url_raw, promo_details, manual_description,
                   strict_urlparse, website_url, scraped, scrape_failed,
                   business_text, user_prompt, email_text, ui, events>>

\* The rest of scrape_website_text, on the parsed page.
ApplyScrape ==
    /\ pc = "parsing"
    /\ scraped' = scrape_website_text(page)
    /\ pc' = "scraped"
    /\ UNCHANGED <<api_key, website_url_raw, promo_details, manual_description,
                   strict_urlparse, website_url, page, scrape_failed,
                   business_text, user_prompt, email_text, ui, events>>

NextScrape == ParseNode \/ ApplyScrape

SpecScrape == InitScrape /\ [][NextScrape]_vars

-----------------------------------------------------------------------------
(* The Streamlit script: widgets and the generate handler *)

\* Most nodes in a page fetched by the generate handler.
MaxPageNodes == 2

\* len(scraped) < 300 on line 173
MIN_SCRAPED_CHARS == 300

\* Elements the script renders.  data is the text an element carries.
Shown(kind, text, data) == [kind |-> kind, text |-> text, data |-> data]

INFO_START      == Shown("info", "Enter your details above, then click Generate", <<>>)
ERR_MISSING_KEY == Shown("error", "Missing API Key", <<>>)
ERR_INVALID_URL == Shown("error", "Please enter a valid Business Website URL", <<>>)
ERR_NO_PROMO    == Shown("error", "Please enter Promotion Details", <<>>)
WARN_FALLBACK   == Shown("warning", "I couldn't scrape enough text from that website", <<>>)
ERR_NO_TEXT     == Shown("error", "No email text was returned", <<>>)
SUCCESS         == Shown("success", "Email generated!", <<>>)
ERR_OPENAI(cause)     == Shown("error", "OpenAI request failed", cause)
RESULT_AREA(email)    == Shown("text_area", "Generated Email (copy this)", email)
DOWNLOAD(email)       == Shown("download_button", "promotional_email.txt", email)
\* What Streamlit renders when an exception leaves the script.
UNCAUGHT_EXCEPTION    == Shown("exception", "ValueError", <<>>)

\* External calls of a run.
FetchStarted(url)  == [op |-> "fetch", url |-> url, text |-> <<>>]
FetchRaised        == [op |-> "fetch_raised", url |-> <<>>, text |-> <<>>]
FetchReturned(t)   == [op |-> "fetch_returned", url |-> <<>>, text |-> t]
CallStarted(text)  == [op |-> "call", url |-> <<>>, text |-> text]
CallRaised(cause)  == [op |-> "call_raised", url |-> <<>>, text |-> cause]
CallReturned(t)    == [op |-> "call_returned", url |-> <<>>, text |-> t]

\* Values the user can give the widgets.
ApiKeys == {<<>>, <<Run("k", 1)>>, <<Run(SP, 1)>>}

TypedUrls ==
    { <<>>,
      <<"x", ".", "x">>,
      <<"H", "T", "T", "P", ":", "/", "/", "x">>,
      <<SP>> \o HTTPS_SCHEME \o <<"x", SP>>,
      HTTPS_SCHEME \o <<"?">>,
      <<"[">> }

TypedPromos ==
    {<<>>, <<Run(SP, 1), Run(NL, 1)>>, <<Run(SP, 1), Run("p", 2), Run(SP, 1)>>}

TypedDescriptions ==
    {<<>>, <<Run(NL, 2)>>, <<Run(SP, 1), Run("m", 5), Run(NL, 1)>>}

\* Word lengths in a fetched page, and outcomes of the completion service.
PageWordLens ==
    {1, MIN_SCRAPED_CHARS - 1, MIN_SCRAPED_CHARS, max_chars + 1}

OutputTexts ==
    {<<>>, <<Run(NL, 1), Run(SP, 1)>>, <<Run(SP, 1), Run("e", 9), Run(NL, 1)>>}

Causes == {<<Run("AuthenticationError", 1)>>, <<Run("APIConnectionError", 1)>>}

\* The script is not running: it has rendered and waits for the user.
Rendered == pc \in {"idle", "stopped", "done", "crashed"}

Init ==
    /\ pc = "idle"
    /\ api_key = <<>>
    /\ website_url_raw = <<>>
    /\ promo_details = <<>>
    /\ manual_description = <<>>
    /\ strict_urlparse \in BOOLEAN
    /\ website_url = <<>>
    /\ page = <<>>
    /\ scraped = <<>>
    /\ scrape_failed = FALSE
    /\ business_text = <<>>
    /\ user_prompt = <<>>
    /\ email_text = <<>>
    /\ ui = <<INFO_START>>
    /\ events = <<>>

\* The user changes one widget; the script reruns with generate = False and
\* renders the info line alone (line 210).
EditInput ==
    /\ Rendered
    /\ \/ /\ api_key' \in ApiKeys \ {api_key}
          /\ UNCHANGED <<website_url_raw, promo_details, manual_description>>
       \/ /\ website_url_raw' \in TypedUrls \ {website_url_raw}
          /\ UNCHANGED <<api_key, promo_details, manual_description>>
       \/ /\ promo_details' \in TypedPromos \ {promo_details}
          /\ UNCHANGED <<api_key, website_url_raw, manual_description>>
       \/ /\ manual_description' \in TypedDescriptions \ {manual_description}
          /\ UNCHANGED <<api_key, website_url_raw, promo_details>>
    /\ pc' = "idle"
    /\ ui' = <<INFO_START>>
    /\ website_url' = <<>>
    /\ scraped' = <<>>
    /\ scrape_failed' = FALSE
    /\ business_text' = <<>>
    /\ user_prompt' = <<>>
    /\ email_text' = <<>>
    /\ events' = <<>>
    /\ UNCHANGED <<strict_urlparse, page>>

\* The button is clicked: lines 152-171, up to the request of
\* scrape_website_text.
Generate ==
    /\ Rendered
    /\ scraped' = <<>>
    /\ scrape_failed' = FALSE
    /\ business_text' = <<>>
    /\ user_prompt' = <<>>
    /\ email_text' = <<>>
    /\ LET r == normalize_url(website_url_raw, strict_urlparse)
       IN  IF api_key = <<>>
           THEN /\ ui' = <<ERR_MISSING_KEY>>
                /\ pc' = "stopped"
                /\ website_url' = <<>>
                /\ events' = <<>>
           ELSE IF r.raised
           THEN /\ ui' = <<UNCAUGHT_EXCEPTION>>
                /\ pc' = "crashed"
                /\ website_url' = <<>>
                /\ events' = <<>>
           ELSE IF r.url = <<>>
           THEN /\ ui' = <<ERR_INVALID_URL>>
                /\ pc' = "stopped"
                /\ website_url' = r.url
                /\ events' = <<>>
           ELSE IF TStrip(promo_details) = <<>>
           THEN /\ ui' = <<ERR_NO_PROMO>>
                /\ pc' = "stopped"
                /\ website_url' = r.url
                /\ events' = <<>>
           ELSE /\ ui' = <<>>
                /\ pc' = "fetching"
                /\ website_url' = r.url
                /\ events' = <<FetchStarted(r.url)>>
    /\ UNCHANGED <<api_key, website_url_raw, promo_details, manual_description,
                   strict_urlparse, page>>


\* The response of the website arrives and is parsed, node by node (line 57).
ReceivePage ==
    /\ pc = "fetching"
    /\ Len(page) < MaxPageNodes
    /\ \E nd \in NodesAt(Len(page) + 1, PageWordLens) :
          /\ CanFollow(page, nd)
          /\ page' = Append(page, nd)
    /\ UNCHANGED <<pc, api_key, website_url_raw, promo_details, manual_description,
                   strict_urlparse, website_url, scraped, scrape_failed,
                   business_text, user_prompt, email_text, ui, events>>

\* The mutant moves the threshold by one.
ScrapeFailed_off_by_one(raised, text) ==
    raised \/ TLen(text) < MIN_SCRAPED_CHARS - 1

\* scrape_failed after lines 170-178.
ScrapeFailed(raised, text) ==
    raised \/ TLen(text) < MIN_SCRAPED_CHARS

\* The mutant lets a description the user typed replace the website text.
BusinessText_prefers_description(failed, text, description) ==
    IF failed \/ TStrip(description) # <<>> THEN TStrip(description) ELSE text

\* business_text when call_openai is reached (lines 176 and 187).
BusinessText(failed, text, description) ==
    IF failed THEN TStrip(description) ELSE text

\* Lines 172-191 once scrape_website_text has raised or returned text: the
\* threshold, the fallback gate, and the request of call_openai.
AfterScrape(raised, text) ==
    LET failed   == ScrapeFailed(raised, text)
        business == BusinessText(failed, text, manual_description)
        ended    == IF raised THEN FetchRaised ELSE FetchReturned(text)
    IN  /\ scraped' = text
        /\ scrape_failed' = failed
        /\ page' = <<>>
        /\ IF failed /\ TStrip(manual_description) = <<>>
           THEN /\ ui' = Append(ui, WARN_FALLBACK)
                /\ pc' = "stopped"
                /\ events' = Append(events, ended)
                /\ UNCHANGED <<business_text, user_prompt>>
           ELSE /\ ui' = IF failed THEN Append(ui, WARN_FALLBACK) ELSE ui
                /\ business_text' = business
                /\ user_prompt' = call_openai_prompt(business, promo_details)
                /\ pc' = "calling"
                /\ events' = events \o <<ended, CallStarted(business)>>
        /\ UNCHANGED <<api_key, website_url_raw, promo_details, manual_description,
                       strict_urlparse, website_url, email_text>>

\* The mutant tries the request again after a failure.
FetchRaises_retry ==
    /\ pc = "fetching"
    /\ page = <<>>
    /\ Len(events) < 3
    /\ events' = events \o <<FetchRaised, FetchStarted(website_url)>>
    /\ UNCHANGED <<pc, api_key, website_url_raw, promo_details, manual_description,
                   strict_urlparse, website_url, page, scraped, scrape_failed,
                   business_text, user_prompt, email_text, ui>>

\* requests.get or raise_for_status raises (lines 54-55, caught on line 177).
FetchRaises ==
    /\ pc = "fetching"
    /\ page = <<>>
    /\ AfterScrape(TRUE, <<>>)

\* scrape_website_text returns the cleaned text of the page (line 171).
FetchReturns ==
    /\ pc = "fetching"
    /\ AfterScrape(FALSE, scrape_website_text(page))

\* The mutant shows whatever came back.
HasEmail_always(email) == TRUE

\* "if not email_text" on line 196, negated.
HasEmail(email) == email # <<>>

\* client.responses.create raises (lines 192-194).
CallRaises ==
    /\ pc = "calling"
    /\ \E cause \in Causes :
          /\ ui' = Append(ui, ERR_OPENAI(cause))
          /\ events' = Append(events, CallRaised(cause))
    /\ pc' = "stopped"
    /\ UNCHANGED <<api_key, website_url_raw, promo_details, manual_description,
                   strict_urlparse, website_url, page, scraped, scrape_failed,
                   business_text, user_prompt, email_text>>

\* call_openai returns (line 116) and the result is rendered (lines 196-208).
CallReturns ==
    /\ pc = "calling"
    /\ \E output_text \in OutputTexts :
          LET email == call_openai_result(output_text)
          IN  /\ email_text' = email
              /\ events' = Append(events, CallReturned(output_text))
              /\ IF HasEmail(email)
                 THEN /\ ui' = ui \o <<SUCCESS, RESULT_AREA(email), DOWNLOAD(email)>>
                      /\ pc' = "done"
                 ELSE /\ ui' = Append(ui, ERR_NO_TEXT)
                      /\ pc' = "stopped"
    /\ UNCHANGED <<api_key, website_url_raw, promo_details, manual_description,
                   strict_urlparse, website_url, page, scraped, scrape_failed,
                   business_text, user_prompt>>

Next ==
    \/ EditInput
    \/ Generate
    \/ ReceivePage
    \/ FetchRaises
    \/ FetchReturns
    \/ CallRaises
    \/ CallReturns

Spec == Init /\ [][Next]_vars

-----------------------------------------------------------------------------
(* Properties of the generate handler, checked under Spec *)

Ops == [i \in 1..Len(events) |-> events[i].op]

EventsWith(ops) == {i \in 1..Len(events) : events[i].op \in ops}

Blank(t) == TStrip(t) = <<>>

ResultShown ==
    \E i \in 1..Len(ui) : ui[i].kind \in {"success", "text_area", "download_button"}

\* C1: in a generate action, if the API key is empty, or normalize_url returns
\* the invalid (empty) result, or the promotion details are blank, the action
\* shows one of the input error messages and halts, and no website fetch and
\* no completion-service call is performed in it.
C1_InvalidInputHalts ==
    LET r == normalize_url(website_url_raw, strict_urlparse)
        invalid == \/ api_key = <<>>
                   \/ (~r.raised /\ r.url = <<>>)
                   \/ Blank(promo_details)
    IN  (pc # "idle" /\ invalid) =>
            /\ pc = "stopped"
            /\ ui \in {<<ERR_MISSING_KEY>>, <<ERR_INVALID_URL>>, <<ERR_NO_PROMO>>}
            /\ events = <<>>

\* C2: a generate action performs at most one website fetch and at most one
\* completion-service call, neither is repeated, and the call starts only
\* after the fetch of the same action has ended, by returning or by raising.
C2_OneFetchThenOneCall ==
    /\ Len(events) <= 4
    /\ \A i \in 1..Len(events) :
          events[i].op \in
            CASE i = 1 -> {"fetch"}
              [] i = 2 -> {"fetch_returned", "fetch_raised"}
              [] i = 3 -> {"call"}
              [] OTHER -> {"call_returned", "call_raised"}

\* A run fetched the site, called the service and rendered the email.
C2_Witness ==
    /\ pc = "done"
    /\ Ops = <<"fetch", "fetch_returned", "call", "call_returned">>

\* C3: in a generate action that passed input validation, when the fetch
\* raised, or returned text of 299 characters or fewer, the fallback warning
\* is shown, and with a blank fallback description the action halts without
\* calling the completion service.  A short text and a failed fetch leave
\* the same scrape_failed, the same business text and the same rendering.
C3_ShortOrFailedTakesFallback ==
    \A i \in EventsWith({"fetch_returned", "fetch_raised"}) :
        (events[i].op = "fetch_raised" \/ TLen(events[i].text) <= 299) =>
            /\ scrape_failed
            /\ ui # <<>>
            /\ ui[1] = WARN_FALLBACK
            /\ Blank(manual_description) =>
                  /\ pc = "stopped"
                  /\ ui = <<WARN_FALLBACK>>
                  /\ EventsWith({"call"}) = {}
                  /\ business_text = <<>>
            /\ ~Blank(manual_description) =>
                  /\ EventsWith({"call"}) # {}
                  /\ business_text = TStrip(manual_description)

\* The fetch returned exactly 299 characters and the action stopped at the
\* fallback gate.
C3_Witness ==
    /\ pc = "stopped"
    /\ Blank(manual_description)
    /\ \E i \in EventsWith({"fetch_returned"}) : TLen(events[i].text) = 299

\* C4: whenever call_openai is reached, the business text passed to it is the
\* extracted website text when the fetch returned 300 or more characters
\* (whatever the fallback description holds), and the trimmed fallback
\* description otherwise: an extracted text of fewer than 300 characters is not
\* what is passed.
C4_BusinessTextSource ==
    \A i \in EventsWith({"call"}) :
        LET fetch == events[i - 1]
        IN  /\ i = 3
            /\ (fetch.op = "fetch_returned" /\ TLen(fetch.text) >= 300)
                  => events[i].text = fetch.text
            /\ (fetch.op = "fetch_raised" \/ TLen(fetch.text) < 300)
                  => /\ events[i].text = TStrip(manual_description)
                     /\ events[i].text # <<>>

\* The website gave enough text and the user had also typed a description.
C4_Witness ==
    /\ pc = "calling"
    /\ ~Blank(manual_description)
    /\ events[2].op = "fetch_returned"
    /\ TLen(events[2].text) >= 300
    /\ events[3].text = events[2].text

\* C5: the success line, the result area and the download of
\* promotional_email.txt are rendered only when the completion-service call
\* returned and its trimmed output is not empty; when the call raised, the
\* action halts on an error carrying the cause and renders no result; when it
\* returned blank output, a different error is rendered and no result.
C5_ResultOnlyOnNonEmptyEmail ==
    /\ ResultShown =>
          /\ pc = "done"
          /\ \E i \in EventsWith({"call_returned"}) :
                LET email == TStrip(events[i].text)
                IN  /\ email # <<>>
                    /\ email_text = email
                    /\ SubSeq(ui, Len(ui) - 2, Len(ui))
                         = <<SUCCESS, RESULT_AREA(email), DOWNLOAD(email)>>
    /\ \A i \in EventsWith({"call_raised"}) :
          /\ pc = "stopped"
          /\ ui[Len(ui)] = ERR_OPENAI(events[i].text)
          /\ ~ResultShown
    /\ \A i \in EventsWith({"call_returned"}) :
          /\ TStrip(events[i].text) = <<>> =>
                /\ pc = "stopped"
                /\ ui[Len(ui)] = ERR_NO_TEXT
                /\ ~ResultShown
          /\ TStrip(events[i].text) # <<>> => ResultShown

\* The service answered with text that had whitespace around it; it is shown.
C5_Witness ==
    /\ pc = "done"
    /\ ResultShown
    /\ \E i \in EventsWith({"call_returned"}) : events[i].text # email_text

-----------------------------------------------------------------------------
(* Properties of call_openai's prompt, checked under SpecPrompt *)

\* The business text with the first max_chars characters kept and the marker
\* put after them.
Truncated(t) == TCat(TTake(t, max_chars), TRUNCATION_MARKER)

-----------------------------------------------------------------------------
(* Properties of normalize_url, checked under SpecUrl *)

\* The characters between the first "//" of u and the next "/", "?" or "#".
HostComponent(u) ==
    LET starts == {i \in 1..(Len(u) - 1) : u[i] = "/" /\ u[i + 1] = "/"}
    IN  IF starts = {} THEN <<>>
        ELSE LET i == CHOOSE k \in starts : \A j \in starts : k <= j
             IN  SubSeq(u, i + 2, FindFrom(u, {"/", "?", "#"}, i + 2) - 1)

\* u has a host the URL parser accepts.
HasValidHost(u) ==
    /\ HostComponent(u) # <<>>
    /\ ~urlparse(u, strict_urlparse).raised

\* C7: normalize_url gives the invalid (empty) result for a blank string;
\* a string that has a scheme (http:// or https://, the surrounding whitespace
\* aside) is returned as it is when it has a valid host and gives the invalid
\* result otherwise; a string without a scheme but with a valid host is
\* returned with https:// put before it.
C7_NormalizeMapping ==
    pc \in {"returned", "raised"} =>
        LET t == UStrip(website_url_raw)
            gives(u) == pc = "returned" /\ website_url = u
        IN  /\ t = <<>> => gives(<<>>)
            /\ (t # <<>> /\ MatchesScheme(t) /\ HasValidHost(t)) => gives(t)
            /\ (t # <<>> /\ MatchesScheme(t) /\ ~HasValidHost(t)) => gives(<<>>)
            /\ (t # <<>> /\ ~MatchesScheme(t) /\ HasValidHost(HTTPS_SCHEME \o t))
                  => gives(HTTPS_SCHEME \o t)

\* The form C8 describes, with the scheme written in lower case.
LowerCaseForm(u) ==
    /\ IsPrefix(HTTP_SCHEME, u) \/ IsPrefix(HTTPS_SCHEME, u)
    /\ HostComponent(u) # <<>>

\* The same form with the scheme in any mix of upper and lower case.
AnyCaseForm(u) ==
    /\ IsPrefix(HTTP_SCHEME, LowerSeq(u)) \/ IsPrefix(HTTPS_SCHEME, LowerSeq(u))
    /\ HostComponent(u) # <<>>

C9_NoExceptionEscapes == pc \notin {"raised", "crashed"}

-----------------------------------------------------------------------------
(* Properties of scrape_website_text, checked under SpecScrape *)

\* The characters of a text other than whitespace.
Words(t) == {t[k].c : k \in 1..Len(t)} \ {SP, NL}

\* Node i of the page is not inside an element with a removed name.
Survives(i) ==
    \A j \in 1..i : InSubtree(page, j, i) => page[j].tag \notin REMOVED_TAGS

\* The root by the rule of the claim: the first <main> that survives the
\* removal, else the first <body> that does, else the document (0).
RootByRule ==
    LET firstOf(name) ==
            LET hits == {i \in 1..Len(page) : page[i].tag = name /\ Survives(i)}
            IN  IF hits = {} THEN 0
                ELSE CHOOSE i \in hits : \A j \in hits : i <= j
    IN  IF firstOf("main") # 0 THEN firstOf("main")
        ELSE IF firstOf("body") # 0 THEN firstOf("body")
        ELSE 0

\* C10: the elements with a removed name go first, with their subtrees; the
\* root is then <main> if there is one, else <body>, else the document; the
\* words of the output are those of the strings inside the root that are in no
\* removed element, so with a <main> nothing outside it and nothing inside a
\* removed element appears.
C10_TextOnlyFromContentRoot ==
    pc = "scraped" =>
        LET root == RootByRule
            from == {i \in 1..Len(page) :
                       /\ page[i].tag = TEXT
                       /\ Survives(i)
                       /\ (root = 0 \/ InSubtree(page, root, i))}
        IN  Words(scraped) = UNION {Words(page[i].text) : i \in from}

\* A page with a word before <main>, a word inside it, and an element with a
\* removed name after it: only the word inside <main> is returned.
C10_Witness ==
    /\ pc = "scraped"
    /\ Len(page) = 4
    /\ page[1].tag = TEXT /\ Words(page[1].text) # {}
    /\ page[2].tag = "main"
    /\ page[3].tag = TEXT /\ page[3].depth = 1 /\ Words(page[3].text) # {}
    /\ page[4].tag = "noscript"
    /\ Words(scraped) = Words(page[3].text)

=============================================================================
